---- MODULE Spec2Model ----
(***************************************************************************)
(* Model of streamlit_app.py (gerardrbentley/streamlit_worldle).           *)
(*                                                                         *)
(* One browser session of the guessing game: the Streamlit session_state   *)
(* dictionary, the query parameters, the widgets that keep state, and what *)
(* the last run of main() rendered.  One action per script run of main()   *)
(* and one per callback.  A second session of the same server process is   *)
(* kept aside in one variable; the two share the cached catalog.           *)
(*                                                                         *)
(* Numbers.  Angles are whole degrees; distances are whole metres          *)
(* (the source computes kilometres as floats).  The country table is a     *)
(* fixture: the database file is not part of the source.  Its centroids    *)
(* lie on the equator, where the haversine formula is linear in the        *)
(* longitude difference.  haversine is defined for two points on the       *)
(* equator or on one meridian, at whole degrees of -180..180; its whole    *)
(* metres lie on the same side of every whole percent of MAX_DISTANCE as   *)
(* the float of the code.                                                  *)
(***************************************************************************)
EXTENDS Integers, Sequences, FiniteSets, TLC

(***************************************************************************)
(* Bounds                                                                  *)
(***************************************************************************)
\* rows of table country in the database of the game specification
NumRows == 9
\* rows of table country in the database of the widget specification
SmallRows == 5
\* rows of table country in the database of the two-session specification
SharedRows == 4

(***************************************************************************)
(* Keys of st.session_state and of the query parameters                    *)
(***************************************************************************)
RANDOM_LOCATION == "random_location"
ALL_LOCATIONS == "all_locations"
GUESSES == "guesses"
LOCALE == "locale"
DEFAULT_LOCALE == "en"

\* LOCALES: locale code -> display-name column
LOCALES ==
    ("ar" :> "name_ar") @@ ("bn" :> "name_bn") @@ ("de" :> "name_de") @@
    ("en" :> "name_en") @@ ("es" :> "name_es") @@ ("fr" :> "name_fr") @@
    ("el" :> "name_el") @@ ("hi" :> "name_hi") @@ ("hu" :> "name_hu") @@
    ("id" :> "name_id") @@ ("it" :> "name_it") @@ ("ja" :> "name_ja") @@
    ("ko" :> "name_ko") @@ ("nl" :> "name_nl") @@ ("pl" :> "name_pl") @@
    ("pt" :> "name_pt") @@ ("ru" :> "name_ru") @@ ("sv" :> "name_sv") @@
    ("tr" :> "name_tr") @@ ("vi" :> "name_vi") @@ ("zh" :> "name_zh")

\* list(LOCALES.keys()): the codes in insertion order
locale_list ==
    << "ar", "bn", "de", "en", "es", "fr", "el", "hi", "hu", "id", "it",
       "ja", "ko", "nl", "pl", "pt", "ru", "sv", "tr", "vi", "zh" >>

(***************************************************************************)
(* The country table (fixture), in name_en order                           *)
(***************************************************************************)
TableFid  == <<  5,  10,   2,   7,  12,   4,   9,   1,   6,  11,   3 >>
TableLon  == <<  0,  63, -65,  89, -91, 180,  45, -45, 135, -66, -170 >>
TableType ==
    << "Country", "Lease", "Dependency", "Sovereign country",
       "Sovereign country", "Sovereign country", "Sovereign country",
       "Sovereign country", "Sovereign country", "Dependency",
       "Sovereign country" >>
TableNameEn ==
    << "Austria", "Baikonur", "Bermuda", "Brazil", "Chad", "Germany",
       "Japan", "Kenya", "Niger", "Puerto Rico", "Spain" >>
TableNameFr ==
    << "Autriche", "Baikonour", "Bermudes", "Bresil", "Tchad", "Allemagne",
       "Japon", "Kenya", "Niger", "Porto Rico", "Espagne" >>
TableNameAr ==
    << "an-Nimsa", "Baykunur", "Birmuda", "al-Barazil", "Tshad", "Almanya",
       "al-Yaban", "Kiniya", "an-Nayjar", "Burtu Riku", "Isbanya" >>

\* the display name of table row i in column col; the fixture carries three
\* translated columns, the remaining columns repeat the English name
TableName(col, i) ==
    CASE col = "name_fr" -> TableNameFr[i]
      [] col = "name_ar" -> TableNameAr[i]
      [] OTHER -> TableNameEn[i]

\* one row of table country
CountryRow(i) ==
    [ fid |-> TableFid[i], type |-> TableType[i], lat |-> 0,
      lon |-> TableLon[i], pos |-> i ]

VARIABLES
    db_rows,          \* the number of rows of table country in countries.db
    page_query,       \* the query parameters the page was loaded with
    keys,             \* the keys present in st.session_state
    random_location,  \* st.session_state[RANDOM_LOCATION]: the target's fid
    all_locations,    \* st.session_state[ALL_LOCATIONS]: the distance table
    guesses,          \* st.session_state[GUESSES]
    locale,           \* st.session_state[LOCALE]: the locale selectbox
    query_params,     \* the query parameters of the page
    show_on_map,      \* the "Reveal the mystery country" checkbox
    pc,               \* "idle": waiting for the user; "rerun": a run is due
    branch,           \* where the last handler ended
    locale_col,       \* the name column the last run displayed
    prox_icons,       \* the tier shown for each guess by the last run
    buttons,          \* the reset buttons the last run rendered
    revealed,         \* the last run drew the target among the records of a map
    header,           \* the name the last run wrote with st.header, "" if none
    singleton,        \* the frame cached by @st.experimental_singleton
    other             \* the second session of the server, while it waits

vars == << db_rows, page_query, keys, random_location, all_locations, guesses, locale,
           query_params, show_on_map, pc, branch, locale_col, prox_icons,
           buttons, revealed, header, singleton, other >>

\* table country
country == [ i \in 1..db_rows |-> CountryRow(i) ]

\* WHERE type != 'Dependency' and type != 'Lease'
Selectable(row) == row.type # "Dependency" /\ row.type # "Lease"

(***************************************************************************)
(* Geodesy                                                                 *)
(***************************************************************************)
Abs(n) == IF n < 0 THEN -n ELSE n

\* r * pi in metres, r = 6371 km: the length of half a great circle
HalfCircleM == 20015087

\* the central angle c in degrees, for two points on one meridian or two
\* points on the equator, at whole degrees of -180..180: there a is
\* sin(delta / 2) ** 2 of the one coordinate that differs, and
\* 2 * asin(sqrt(a)) folds the difference into 0..180
CentralAngle(lat1, lon1, lat2, lon2) ==
    LET d == CASE lon1 = lon2 -> Abs(lat2 - lat1) % 360
               [] lon1 # lon2 /\ lat1 = 0 /\ lat2 = 0 -> Abs(lon2 - lon1) % 360
    IN  IF d <= 180 THEN d ELSE 360 - d

\* the pairs of whole-degree coordinates (the smaller one first, and of a
\* pair and its mirror image <<-b, -a>> the one with a + b <= 0) for which
\* the float c * r of the code comes out above the exact distance although
\* that distance is a whole percent of MAX_DISTANCE (or 0): the float
\* depends on both coordinates, not only on their difference
FloatAbove ==
    {
      <<-180, -72>>, <<-180, -18>>, <<-180, -9>>, <<-180, 9>>, <<-180, 18>>, <<-180, 27>>, <<-180, 36>>,
      <<-180, 54>>, <<-180, 63>>, <<-180, 72>>, <<-180, 81>>, <<-180, 90>>, <<-180, 99>>, <<-180, 108>>,
      <<-180, 117>>, <<-180, 135>>, <<-180, 153>>, <<-180, 162>>, <<-180, 180>>, <<-179, -107>>, <<-179, -98>>,
      <<-179, -89>>, <<-179, -80>>, <<-179, -71>>, <<-179, -17>>, <<-179, -8>>, <<-179, 10>>, <<-179, 19>>,
      <<-179, 28>>, <<-179, 37>>, <<-179, 55>>, <<-179, 64>>, <<-179, 73>>, <<-179, 82>>, <<-179, 91>>,
      <<-179, 100>>, <<-179, 109>>, <<-179, 163>>, <<-178, -70>>, <<-178, -16>>, <<-178, -7>>, <<-178, 11>>,
      <<-178, 20>>, <<-178, 29>>, <<-178, 38>>, <<-178, 56>>, <<-178, 65>>, <<-178, 74>>, <<-178, 83>>,
      <<-178, 92>>, <<-178, 101>>, <<-178, 110>>, <<-178, 119>>, <<-178, 137>>, <<-178, 155>>, <<-178, 164>>,
      <<-177, -87>>, <<-177, -78>>, <<-177, -69>>, <<-177, -15>>, <<-177, -6>>, <<-177, 12>>, <<-177, 21>>,
      <<-177, 30>>, <<-177, 39>>, <<-177, 57>>, <<-177, 66>>, <<-177, 75>>, <<-177, 84>>, <<-177, 93>>,
      <<-177, 102>>, <<-177, 111>>, <<-177, 120>>, <<-177, 138>>, <<-177, 156>>, <<-177, 165>>, <<-176, -14>>,
      <<-176, -5>>, <<-176, 13>>, <<-176, 22>>, <<-176, 31>>, <<-176, 40>>, <<-176, 58>>, <<-176, 67>>,
      <<-176, 76>>, <<-176, 85>>, <<-176, 94>>, <<-176, 103>>, <<-176, 112>>, <<-176, 121>>, <<-176, 139>>,
      <<-176, 157>>, <<-176, 166>>, <<-175, -67>>, <<-175, -13>>, <<-175, -4>>, <<-175, 14>>, <<-175, 23>>,
      <<-175, 32>>, <<-175, 41>>, <<-175, 59>>, <<-175, 68>>, <<-175, 77>>, <<-175, 86>>, <<-175, 95>>,
      <<-175, 104>>, <<-175, 113>>, <<-175, 122>>, <<-175, 140>>, <<-175, 158>>, <<-175, 167>>, <<-174, -12>>,
      <<-174, -3>>, <<-174, 15>>, <<-174, 24>>, <<-174, 33>>, <<-174, 42>>, <<-174, 60>>, <<-174, 69>>,
      <<-174, 78>>, <<-174, 87>>, <<-174, 96>>, <<-174, 105>>, <<-174, 114>>, <<-174, 123>>, <<-174, 141>>,
      <<-174, 159>>, <<-174, 168>>, <<-173, -65>>, <<-173, -11>>, <<-173, -2>>, <<-173, 16>>, <<-173, 25>>,
      <<-173, 34>>, <<-173, 43>>, <<-173, 61>>, <<-173, 70>>, <<-173, 79>>, <<-173, 88>>, <<-173, 97>>,
      <<-173, 106>>, <<-173, 115>>, <<-173, 124>>, <<-173, 142>>, <<-173, 160>>, <<-173, 169>>, <<-172, -109>>,
      <<-172, -100>>, <<-172, -91>>, <<-172, -82>>, <<-172, -73>>, <<-172, -64>>, <<-172, -10>>, <<-172, -1>>,
      <<-172, 17>>, <<-172, 35>>, <<-172, 44>>, <<-172, 62>>, <<-172, 71>>, <<-172, 80>>, <<-172, 89>>,
      <<-172, 98>>, <<-172, 107>>, <<-172, 116>>, <<-172, 170>>, <<-171, -63>>, <<-171, -9>>, <<-171, 0>>,
      <<-171, 18>>, <<-171, 27>>, <<-171, 36>>, <<-171, 45>>, <<-171, 63>>, <<-171, 72>>, <<-171, 81>>,
      <<-171, 90>>, <<-171, 99>>, <<-171, 108>>, <<-171, 117>>, <<-171, 126>>, <<-171, 144>>, <<-171, 162>>,
      <<-171, 171>>, <<-170, -107>>, <<-170, -98>>, <<-170, -89>>, <<-170, -80>>, <<-170, -71>>, <<-170, -62>>,
      <<-170, -8>>, <<-170, 1>>, <<-170, 19>>, <<-170, 28>>, <<-170, 37>>, <<-170, 46>>, <<-170, 64>>,
      <<-170, 73>>, <<-170, 82>>, <<-170, 91>>, <<-170, 100>>, <<-170, 109>>, <<-170, 118>>, <<-169, -61>>,
      <<-169, -7>>, <<-169, 2>>, <<-169, 20>>, <<-169, 29>>, <<-169, 38>>, <<-169, 47>>, <<-169, 65>>,
      <<-169, 74>>, <<-169, 83>>, <<-169, 92>>, <<-169, 101>>, <<-169, 110>>, <<-169, 119>>, <<-169, 128>>,
      <<-169, 146>>, <<-169, 164>>, <<-168, -87>>, <<-168, -78>>, <<-168, -69>>, <<-168, -60>>, <<-168, -6>>,
      <<-168, 3>>, <<-168, 21>>, <<-168, 30>>, <<-168, 39>>, <<-168, 48>>, <<-168, 66>>, <<-168, 75>>,
      <<-168, 84>>, <<-168, 93>>, <<-168, 102>>, <<-168, 111>>, <<-168, 120>>, <<-168, 129>>, <<-168, 147>>,
      <<-168, 165>>, <<-167, -5>>, <<-167, 4>>, <<-167, 22>>, <<-167, 31>>, <<-167, 40>>, <<-167, 49>>,
      <<-167, 67>>, <<-167, 76>>, <<-167, 85>>, <<-167, 94>>, <<-167, 103>>, <<-167, 112>>, <<-167, 121>>,
      <<-167, 130>>, <<-167, 148>>, <<-167, 166>>, <<-166, -58>>, <<-166, -4>>, <<-166, 5>>, <<-166, 23>>,
      <<-166, 32>>, <<-166, 41>>, <<-166, 50>>, <<-166, 68>>, <<-166, 77>>, <<-166, 86>>, <<-166, 95>>,
      <<-166, 104>>, <<-166, 113>>, <<-166, 122>>, <<-166, 131>>, <<-166, 149>>, <<-165, -3>>, <<-165, 6>>,
      <<-165, 24>>, <<-165, 33>>, <<-165, 42>>, <<-165, 51>>, <<-165, 69>>, <<-165, 78>>, <<-165, 87>>,
      <<-165, 96>>, <<-165, 105>>, <<-165, 114>>, <<-165, 123>>, <<-165, 132>>, <<-165, 150>>, <<-164, -56>>,
      <<-164, -2>>, <<-164, 7>>, <<-164, 25>>, <<-164, 34>>, <<-164, 43>>, <<-164, 52>>, <<-164, 70>>,
      <<-164, 79>>, <<-164, 88>>, <<-164, 97>>, <<-164, 106>>, <<-164, 115>>, <<-164, 124>>, <<-164, 133>>,
      <<-164, 151>>, <<-163, -100>>, <<-163, -91>>, <<-163, -82>>, <<-163, -73>>, <<-163, -64>>, <<-163, -55>>,
      <<-163, -10>>, <<-163, -1>>, <<-163, 8>>, <<-163, 26>>, <<-163, 35>>, <<-163, 44>>, <<-163, 53>>,
      <<-163, 71>>, <<-163, 80>>, <<-163, 89>>, <<-163, 98>>, <<-163, 107>>, <<-163, 125>>, <<-162, -54>>,
      <<-162, 0>>, <<-162, 9>>, <<-162, 27>>, <<-162, 36>>, <<-162, 45>>, <<-162, 54>>, <<-162, 72>>,
      <<-162, 81>>, <<-162, 90>>, <<-162, 99>>, <<-162, 108>>, <<-162, 117>>, <<-162, 126>>, <<-162, 135>>,
      <<-162, 153>>, <<-161, -98>>, <<-161, -89>>, <<-161, -80>>, <<-161, -71>>, <<-161, -62>>, <<-161, -53>>,
      <<-161, 1>>, <<-161, 10>>, <<-161, 28>>, <<-161, 37>>, <<-161, 46>>, <<-161, 55>>, <<-161, 73>>,
      <<-161, 82>>, <<-161, 91>>, <<-161, 100>>, <<-161, 109>>, <<-161, 127>>, <<-160, -52>>, <<-160, 2>>,
      <<-160, 11>>, <<-160, 29>>, <<-160, 38>>, <<-160, 47>>, <<-160, 56>>, <<-160, 74>>, <<-160, 83>>,
      <<-160, 92>>, <<-160, 101>>, <<-160, 110>>, <<-160, 119>>, <<-160, 128>>, <<-160, 137>>, <<-160, 155>>,
      <<-159, -87>>, <<-159, -78>>, <<-159, -69>>, <<-159, -60>>, <<-159, -51>>, <<-159, 3>>, <<-159, 12>>,
      <<-159, 30>>, <<-159, 39>>, <<-159, 48>>, <<-159, 57>>, <<-159, 75>>, <<-159, 84>>, <<-159, 93>>,
      <<-159, 102>>, <<-159, 111>>, <<-159, 120>>, <<-159, 129>>, <<-159, 138>>, <<-159, 156>>, <<-158, -50>>,
      <<-158, 4>>, <<-158, 13>>, <<-158, 31>>, <<-158, 40>>, <<-158, 49>>, <<-158, 58>>, <<-158, 76>>,
      <<-158, 85>>, <<-158, 94>>, <<-158, 103>>, <<-158, 112>>, <<-158, 121>>, <<-158, 130>>, <<-158, 139>>,
      <<-158, 157>>, <<-157, -49>>, <<-157, 5>>, <<-157, 14>>, <<-157, 32>>, <<-157, 41>>, <<-157, 50>>,
      <<-157, 59>>, <<-157, 77>>, <<-157, 86>>, <<-157, 95>>, <<-157, 104>>, <<-157, 113>>, <<-157, 122>>,
      <<-157, 131>>, <<-157, 140>>, <<-156, 6>>, <<-156, 15>>, <<-156, 33>>, <<-156, 42>>, <<-156, 51>>,
      <<-156, 60>>, <<-156, 78>>, <<-156, 87>>, <<-156, 96>>, <<-156, 105>>, <<-156, 114>>, <<-156, 123>>,
      <<-156, 132>>, <<-156, 141>>, <<-155, -47>>, <<-155, 7>>, <<-155, 16>>, <<-155, 34>>, <<-155, 43>>,
      <<-155, 52>>, <<-155, 61>>, <<-155, 79>>, <<-155, 88>>, <<-155, 97>>, <<-155, 106>>, <<-155, 115>>,
      <<-155, 124>>, <<-155, 133>>, <<-155, 142>>, <<-154, -91>>, <<-154, -82>>, <<-154, -73>>, <<-154, -64>>,
      <<-154, -55>>, <<-154, -46>>, <<-154, -10>>, <<-154, -1>>, <<-154, 8>>, <<-154, 17>>, <<-154, 35>>,
      <<-154, 44>>, <<-154, 53>>, <<-154, 62>>, <<-154, 80>>, <<-154, 89>>, <<-154, 98>>, <<-154, 107>>,
      <<-154, 116>>, <<-154, 134>>, <<-153, -45>>, <<-153, 9>>, <<-153, 18>>, <<-153, 36>>, <<-153, 45>>,
      <<-153, 54>>, <<-153, 63>>, <<-153, 81>>, <<-153, 90>>, <<-153, 99>>, <<-153, 108>>, <<-153, 117>>,
      <<-153, 126>>, <<-153, 135>>, <<-153, 144>>, <<-152, -89>>, <<-152, -80>>, <<-152, -71>>, <<-152, -62>>,
      <<-152, -53>>, <<-152, -44>>, <<-152, 10>>, <<-152, 19>>, <<-152, 37>>, <<-152, 46>>, <<-152, 55>>,
      <<-152, 64>>, <<-152, 82>>, <<-152, 91>>, <<-152, 100>>, <<-152, 109>>, <<-152, 118>>, <<-152, 136>>,
      <<-151, -43>>, <<-151, 11>>, <<-151, 20>>, <<-151, 38>>, <<-151, 47>>, <<-151, 56>>, <<-151, 65>>,
      <<-151, 83>>, <<-151, 92>>, <<-151, 101>>, <<-151, 110>>, <<-151, 119>>, <<-151, 128>>, <<-151, 137>>,
      <<-151, 146>>, <<-150, -87>>, <<-150, -78>>, <<-150, -69>>, <<-150, -60>>, <<-150, -42>>, <<-150, 12>>,
      <<-150, 21>>, <<-150, 39>>, <<-150, 48>>, <<-150, 57>>, <<-150, 66>>, <<-150, 84>>, <<-150, 93>>,
      <<-150, 102>>, <<-150, 111>>, <<-150, 120>>, <<-150, 129>>, <<-150, 138>>, <<-150, 147>>, <<-149, -41>>,
      <<-149, 13>>, <<-149, 22>>, <<-149, 40>>, <<-149, 49>>, <<-149, 58>>, <<-149, 67>>, <<-149, 85>>,
      <<-149, 94>>, <<-149, 103>>, <<-149, 112>>, <<-149, 121>>, <<-149, 130>>, <<-149, 139>>, <<-149, 148>>,
      <<-148, -40>>, <<-148, 14>>, <<-148, 23>>, <<-148, 41>>, <<-148, 50>>, <<-148, 59>>, <<-148, 68>>,
      <<-148, 86>>, <<-148, 95>>, <<-148, 104>>, <<-148, 113>>, <<-148, 122>>, <<-148, 131>>, <<-148, 140>>,
      <<-147, -39>>, <<-147, 15>>, <<-147, 24>>, <<-147, 42>>, <<-147, 51>>, <<-147, 60>>, <<-147, 69>>,
      <<-147, 87>>, <<-147, 96>>, <<-147, 105>>, <<-147, 114>>, <<-147, 123>>, <<-147, 132>>, <<-147, 141>>,
      <<-146, -38>>, <<-146, 16>>, <<-146, 25>>, <<-146, 43>>, <<-146, 52>>, <<-146, 61>>, <<-146, 70>>,
      <<-146, 88>>, <<-146, 97>>, <<-146, 106>>, <<-146, 115>>, <<-146, 124>>, <<-146, 133>>, <<-146, 142>>,
      <<-145, -82>>, <<-145, -73>>, <<-145, -64>>, <<-145, -55>>, <<-145, -46>>, <<-145, -37>>, <<-145, -10>>,
      <<-145, -1>>, <<-145, 8>>, <<-145, 17>>, <<-145, 26>>, <<-145, 44>>, <<-145, 53>>, <<-145, 62>>,
      <<-145, 71>>, <<-145, 89>>, <<-145, 98>>, <<-145, 107>>, <<-145, 125>>, <<-145, 143>>, <<-144, -36>>,
      <<-144, 18>>, <<-144, 27>>, <<-144, 45>>, <<-144, 54>>, <<-144, 63>>, <<-144, 72>>, <<-144, 90>>,
      <<-144, 99>>, <<-144, 108>>, <<-144, 117>>, <<-144, 126>>, <<-144, 135>>, <<-144, 144>>, <<-143, -80>>,
      <<-143, -71>>, <<-143, -62>>, <<-143, -53>>, <<-143, -44>>, <<-143, -35>>, <<-143, 19>>, <<-143, 28>>,
      <<-143, 46>>, <<-143, 55>>, <<-143, 64>>, <<-143, 73>>, <<-143, 91>>, <<-143, 100>>, <<-143, 109>>,
      <<-143, 127>>, <<-142, -34>>, <<-142, 20>>, <<-142, 29>>, <<-142, 47>>, <<-142, 56>>, <<-142, 65>>,
      <<-142, 74>>, <<-142, 92>>, <<-142, 101>>, <<-142, 110>>, <<-142, 119>>, <<-142, 128>>, <<-142, 137>>,
      <<-141, -78>>, <<-141, -69>>, <<-141, -60>>, <<-141, -33>>, <<-141, 21>>, <<-141, 30>>, <<-141, 48>>,
      <<-141, 57>>, <<-141, 66>>, <<-141, 75>>, <<-141, 93>>, <<-141, 102>>, <<-141, 111>>, <<-141, 120>>,
      <<-141, 129>>, <<-141, 138>>, <<-140, -32>>, <<-140, 22>>, <<-140, 31>>, <<-140, 49>>, <<-140, 58>>,
      <<-140, 67>>, <<-140, 76>>, <<-140, 94>>, <<-140, 103>>, <<-140, 112>>, <<-140, 121>>, <<-140, 130>>,
      <<-140, 139>>, <<-139, -31>>, <<-139, 23>>, <<-139, 32>>, <<-139, 50>>, <<-139, 59>>, <<-139, 68>>,
      <<-139, 77>>, <<-139, 95>>, <<-139, 104>>, <<-139, 113>>, <<-139, 122>>, <<-139, 131>>, <<-138, -30>>,
      <<-138, 24>>, <<-138, 33>>, <<-138, 51>>, <<-138, 60>>, <<-138, 69>>, <<-138, 78>>, <<-138, 96>>,
      <<-138, 105>>, <<-138, 114>>, <<-138, 123>>, <<-138, 132>>, <<-137, -29>>, <<-137, 25>>, <<-137, 34>>,
      <<-137, 52>>, <<-137, 61>>, <<-137, 70>>, <<-137, 79>>, <<-137, 97>>, <<-137, 106>>, <<-137, 115>>,
      <<-137, 124>>, <<-137, 133>>, <<-136, -73>>, <<-136, -64>>, <<-136, -55>>, <<-136, -46>>, <<-136, -37>>,
      <<-136, -28>>, <<-136, -10>>, <<-136, -1>>, <<-136, 8>>, <<-136, 17>>, <<-136, 26>>, <<-136, 35>>,
      <<-136, 53>>, <<-136, 62>>, <<-136, 71>>, <<-136, 80>>, <<-136, 98>>, <<-136, 107>>, <<-136, 116>>,
      <<-136, 134>>, <<-135, -27>>, <<-135, 27>>, <<-135, 36>>, <<-135, 54>>, <<-135, 63>>, <<-135, 72>>,
      <<-135, 81>>, <<-135, 99>>, <<-135, 108>>, <<-135, 117>>, <<-135, 126>>, <<-135, 135>>, <<-134, -71>>,
      <<-134, -62>>, <<-134, -53>>, <<-134, -44>>, <<-134, -35>>, <<-134, -26>>, <<-134, 28>>, <<-134, 37>>,
      <<-134, 55>>, <<-134, 64>>, <<-134, 73>>, <<-134, 82>>, <<-134, 100>>, <<-134, 109>>, <<-134, 118>>,
      <<-133, -25>>, <<-133, 29>>, <<-133, 38>>, <<-133, 56>>, <<-133, 65>>, <<-133, 74>>, <<-133, 83>>,
      <<-133, 101>>, <<-133, 110>>, <<-133, 119>>, <<-133, 128>>, <<-132, -69>>, <<-132, -60>>, <<-132, -24>>,
      <<-132, 30>>, <<-132, 39>>, <<-132, 57>>, <<-132, 66>>, <<-132, 75>>, <<-132, 84>>, <<-132, 102>>,
      <<-132, 111>>, <<-132, 120>>, <<-132, 129>>, <<-131, -23>>, <<-131, 31>>, <<-131, 40>>, <<-131, 58>>,
      <<-131, 67>>, <<-131, 76>>, <<-131, 85>>, <<-131, 103>>, <<-131, 112>>, <<-131, 121>>, <<-131, 130>>,
      <<-130, -22>>, <<-130, 32>>, <<-130, 41>>, <<-130, 59>>, <<-130, 68>>, <<-130, 77>>, <<-130, 86>>,
      <<-130, 104>>, <<-130, 113>>, <<-130, 122>>, <<-129, 33>>, <<-129, 42>>, <<-129, 60>>, <<-129, 69>>,
      <<-129, 78>>, <<-129, 87>>, <<-129, 105>>, <<-129, 114>>, <<-129, 123>>, <<-128, -20>>, <<-128, 34>>,
      <<-128, 43>>, <<-128, 61>>, <<-128, 70>>, <<-128, 79>>, <<-128, 88>>, <<-128, 106>>, <<-128, 115>>,
      <<-128, 124>>, <<-127, -109>>, <<-127, -64>>, <<-127, -55>>, <<-127, -46>>, <<-127, -37>>, <<-127, -28>>,
      <<-127, -19>>, <<-127, -10>>, <<-127, -1>>, <<-127, 8>>, <<-127, 17>>, <<-127, 26>>, <<-127, 35>>,
      <<-127, 44>>, <<-127, 62>>, <<-127, 71>>, <<-127, 80>>, <<-127, 89>>, <<-127, 107>>, <<-127, 125>>,
      <<-126, -18>>, <<-126, 36>>, <<-126, 45>>, <<-126, 63>>, <<-126, 72>>, <<-126, 81>>, <<-126, 90>>,
      <<-126, 108>>, <<-126, 117>>, <<-126, 126>>, <<-125, -107>>, <<-125, -62>>, <<-125, -53>>, <<-125, -44>>,
      <<-125, -35>>, <<-125, -26>>, <<-125, -17>>, <<-125, 37>>, <<-125, 46>>, <<-125, 64>>, <<-125, 73>>,
      <<-125, 82>>, <<-125, 91>>, <<-125, 109>>, <<-124, -16>>, <<-124, 38>>, <<-124, 47>>, <<-124, 65>>,
      <<-124, 74>>, <<-124, 83>>, <<-124, 92>>, <<-124, 110>>, <<-124, 119>>, <<-123, -60>>, <<-123, -15>>,
      <<-123, 39>>, <<-123, 48>>, <<-123, 66>>, <<-123, 75>>, <<-123, 84>>, <<-123, 93>>, <<-123, 111>>,
      <<-123, 120>>, <<-122, -14>>, <<-122, 40>>, <<-122, 49>>, <<-122, 67>>, <<-122, 76>>, <<-122, 85>>,
      <<-122, 94>>, <<-122, 112>>, <<-122, 121>>, <<-121, -13>>, <<-121, 41>>, <<-121, 50>>, <<-121, 68>>,
      <<-121, 77>>, <<-121, 86>>, <<-121, 95>>, <<-121, 113>>, <<-120, 42>>, <<-120, 51>>, <<-120, 69>>,
      <<-120, 78>>, <<-120, 87>>, <<-120, 96>>, <<-120, 114>>, <<-119, -11>>, <<-119, 43>>, <<-119, 52>>,
      <<-119, 70>>, <<-119, 79>>, <<-119, 88>>, <<-119, 97>>, <<-119, 115>>, <<-118, -100>>, <<-118, -55>>,
      <<-118, -46>>, <<-118, -37>>, <<-118, -28>>, <<-118, -19>>, <<-118, -10>>, <<-118, -1>>, <<-118, 8>>,
      <<-118, 17>>, <<-118, 26>>, <<-118, 44>>, <<-118, 53>>, <<-118, 71>>, <<-118, 80>>, <<-118, 89>>,
      <<-118, 98>>, <<-118, 116>>, <<-117, -9>>, <<-117, 45>>, <<-117, 54>>, <<-117, 72>>, <<-117, 81>>,
      <<-117, 90>>, <<-117, 99>>, <<-117, 117>>, <<-116, -98>>, <<-116, -53>>, <<-116, -44>>, <<-116, -35>>,
      <<-116, -26>>, <<-116, -17>>, <<-116, -8>>, <<-116, 46>>, <<-116, 55>>, <<-116, 73>>, <<-116, 82>>,
      <<-116, 91>>, <<-116, 100>>, <<-115, -7>>, <<-115, 47>>, <<-115, 56>>, <<-115, 74>>, <<-115, 83>>,
      <<-115, 92>>, <<-115, 101>>, <<-114, -15>>, <<-114, -6>>, <<-114, 48>>, <<-114, 57>>, <<-114, 75>>,
      <<-114, 84>>, <<-114, 93>>, <<-114, 102>>, <<-113, -5>>, <<-113, 49>>, <<-113, 58>>, <<-113, 76>>,
      <<-113, 85>>, <<-113, 94>>, <<-113, 103>>, <<-112, -4>>, <<-112, 50>>, <<-112, 59>>, <<-112, 77>>,
      <<-112, 86>>, <<-112, 95>>, <<-112, 104>>, <<-111, -3>>, <<-111, 51>>, <<-111, 60>>, <<-111, 78>>,
      <<-111, 87>>, <<-111, 96>>, <<-111, 105>>, <<-110, -2>>, <<-110, 52>>, <<-110, 61>>, <<-110, 79>>,
      <<-110, 88>>, <<-110, 97>>, <<-110, 106>>, <<-109, -1>>, <<-109, 53>>, <<-109, 62>>, <<-109, 80>>,
      <<-109, 89>>, <<-109, 98>>, <<-109, 107>>, <<-108, 0>>, <<-108, 54>>, <<-108, 63>>, <<-108, 81>>,
      <<-108, 90>>, <<-108, 99>>, <<-108, 108>>, <<-107, 1>>, <<-107, 55>>, <<-107, 64>>, <<-107, 82>>,
      <<-107, 91>>, <<-107, 100>>, <<-106, 2>>, <<-106, 56>>, <<-106, 65>>, <<-106, 83>>, <<-106, 92>>,
      <<-106, 101>>, <<-105, -87>>, <<-105, -15>>, <<-105, -6>>, <<-105, 3>>, <<-105, 57>>, <<-105, 66>>,
      <<-105, 84>>, <<-105, 93>>, <<-105, 102>>, <<-104, -5>>, <<-104, 4>>, <<-104, 58>>, <<-104, 67>>,
      <<-104, 85>>, <<-104, 94>>, <<-104, 103>>, <<-103, 5>>, <<-103, 59>>, <<-103, 68>>, <<-103, 86>>,
      <<-103, 95>>, <<-102, 6>>, <<-102, 60>>, <<-102, 69>>, <<-102, 87>>, <<-102, 96>>, <<-101, 7>>,
      <<-101, 61>>, <<-101, 70>>, <<-101, 88>>, <<-101, 97>>, <<-100, 8>>, <<-100, 62>>, <<-100, 71>>,
      <<-100, 89>>, <<-100, 98>>, <<-99, 9>>, <<-99, 63>>, <<-99, 72>>, <<-99, 90>>, <<-99, 99>>,
      <<-98, 10>>, <<-98, 64>>, <<-98, 73>>, <<-98, 91>>, <<-97, 11>>, <<-97, 65>>, <<-97, 74>>,
      <<-97, 92>>, <<-96, -78>>, <<-96, -15>>, <<-96, -6>>, <<-96, 3>>, <<-96, 12>>, <<-96, 66>>,
      <<-96, 75>>, <<-96, 93>>, <<-95, -5>>, <<-95, 4>>, <<-95, 13>>, <<-95, 67>>, <<-95, 76>>,
      <<-95, 94>>, <<-94, 14>>, <<-94, 68>>, <<-94, 77>>, <<-93, 15>>, <<-93, 69>>, <<-93, 78>>,
      <<-92, 16>>, <<-92, 70>>, <<-92, 79>>, <<-91, 17>>, <<-91, 71>>, <<-91, 80>>, <<-90, 18>>,
      <<-90, 72>>, <<-90, 81>>, <<-89, 19>>, <<-89, 73>>, <<-89, 82>>, <<-88, 20>>, <<-88, 74>>,
      <<-88, 83>>, <<-87, 21>>, <<-87, 75>>, <<-87, 84>>, <<-86, -5>>, <<-86, 4>>, <<-86, 13>>,
      <<-86, 22>>, <<-86, 76>>, <<-86, 85>>, <<-85, 23>>, <<-85, 77>>, <<-84, 24>>, <<-84, 78>>,
      <<-83, 25>>, <<-83, 79>>, <<-82, 26>>, <<-82, 80>>, <<-81, 27>>, <<-81, 81>>, <<-80, 28>>,
      <<-79, 29>>, <<-78, 30>>, <<-77, -5>>, <<-77, 4>>, <<-77, 13>>, <<-77, 31>>, <<-76, 32>>,
      <<-75, 33>>, <<-74, 34>>, <<-73, 35>>, <<-72, 36>>, <<-71, 37>>, <<-70, 38>>, <<-69, 39>>,
      <<-68, -50>>, <<-68, -5>>, <<-68, 4>>, <<-68, 13>>, <<-68, 40>>, <<-67, -49>>, <<-67, 41>>,
      <<-66, 42>>, <<-65, 43>>, <<-64, 44>>, <<-63, 45>>, <<-62, 46>>, <<-61, 47>>, <<-60, 48>>,
      <<-59, -41>>, <<-59, 4>>, <<-59, 13>>, <<-59, 49>>, <<-58, -40>>, <<-58, 50>>, <<-57, -39>>,
      <<-57, 51>>, <<-56, 52>>, <<-55, 53>>, <<-54, 54>>, <<-48, -30>> }

\* the float of the code for the coordinates u and v lies above a whole
\* percent of MAX_DISTANCE that the exact distance equals
IsFloatAbove(u, v) ==
    LET lo == IF u <= v THEN u ELSE v
        hi == IF u <= v THEN v ELSE u
    IN  IF lo + hi <= 0 THEN << lo, hi >> \in FloatAbove
                        ELSE << -hi, -lo >> \in FloatAbove

\* haversine(lat1, lon1, lat2, lon2, "km"), in whole metres: c * r.  Where
\* the float lies above a whole percent of MAX_DISTANCE that the exact
\* distance equals, the metre above keeps the whole metres on the float's
\* side of that percent.
haversine(lat1, lon1, lat2, lon2) ==
    LET c == CentralAngle(lat1, lon1, lat2, lon2)
        above == IF lon1 = lon2 THEN IsFloatAbove(lat1, lat2)
                                ELSE IsFloatAbove(lon1, lon2)
    IN  (HalfCircleM \div 180) * c + ((HalfCircleM % 180) * c) \div 180
        + ( IF above THEN 1 ELSE 0 )

\* get_flat_earth_bearing: degrees(atan2(relative_lon, relative_lat)) on the
\* axes and diagonals, where the angle is a whole number of degrees
get_flat_earth_bearing(lat1, lon1, lat2, lon2) ==
    LET relative_lat == lat2 - lat1
        relative_lon == lon2 - lon1
    IN  CASE relative_lon = 0 /\ relative_lat >= 0 -> 0
          [] relative_lon = 0 /\ relative_lat < 0 -> 180
          [] relative_lat = 0 /\ relative_lon > 0 -> 90
          [] relative_lat = 0 /\ relative_lon < 0 -> -90
          [] relative_lon = relative_lat /\ relative_lon > 0 -> 45
          [] relative_lon = -relative_lat /\ relative_lon > 0 -> 135
          [] relative_lon = relative_lat /\ relative_lon < 0 -> -135
          [] relative_lon = -relative_lat /\ relative_lon < 0 -> -45

MAX_DISTANCE == haversine(0, 0, 180, 0)

(***************************************************************************)
(* Catalog and scoring                                                     *)
(***************************************************************************)
\* get_all_locations(): the selectable rows, in name_en order
get_all_locations == SelectSeq(country, Selectable)

\* a draw from the whole country table, without the WHERE clause
get_random_location_unfiltered == { country[i] : i \in 1..db_rows }

\* get_random_location(): the rows ORDER BY RANDOM() LIMIT 1 can return
get_random_location == { country[i] : i \in { j \in 1..db_rows : Selectable(country[j]) } }

\* fid is an index label of the frame; .loc raises KeyError otherwise
HasLabel(frame, fid) == \E f \in { frame } : \E i \in 1..Len(f) : f[i].fid = fid

\* frame.loc[fid]
Loc(frame, fid) == frame[CHOOSE i \in 1..Len(frame) : frame[i].fid = fid]

\* distances and directions measured to the first row instead of the target
get_distances_to_first_row(fid) ==
    LET gdf == get_all_locations
        target == gdf[1]
    IN  [ i \in 1..Len(gdf) |->
            [ fid |-> gdf[i].fid, pos |-> gdf[i].pos,
              distance |-> haversine(gdf[i].lat, gdf[i].lon, target.lat, target.lon),
              direction |-> get_flat_earth_bearing(gdf[i].lat, gdf[i].lon,
                                                   target.lat, target.lon) ] ]

\* get_distances(fid): the catalog with a distance and a direction per row.
\* gdf and the target are assigned once (lines 120-123), and so are the
\* four coordinates handed to haversine and get_flat_earth_bearing for a
\* row (lines 124-129): each is bound to its value here.
get_distances(fid) ==
    CHOOSE table \in
        { [ i \in 1..Len(gdf) |->
              CHOOSE row \in
                  { [ fid |-> gdf[i].fid, pos |-> gdf[i].pos,
                      distance |-> haversine(lat1, lon1, lat2, lon2),
                      direction |-> get_flat_earth_bearing(lat1, lon1, lat2, lon2) ] :
                    lat1 \in { gdf[i].lat }, lon1 \in { gdf[i].lon },
                    lat2 \in { target.lat }, lon2 \in { target.lon } } : TRUE ] :
          gdf \in { get_all_locations },
          target \in { Loc(get_all_locations, fid) } } : TRUE

\* all_locations[locale_col], in row order
NameColumn(frame, col) == [ i \in 1..Len(frame) |-> TableName(col, frame[i].pos) ]

\* a lookup that always compares with the English names
MatchingIndex_english_only(frame, col, guess) ==
    LET Matches(row) == TableName("name_en", row.pos) = guess
    IN  [ i \in 1..Len(SelectSeq(frame, Matches)) |-> SelectSeq(frame, Matches)[i].fid ]

\* the index labels of a sequence of rows
Fids(rows) == [ i \in 1..Len(rows) |-> rows[i].fid ]

\* all_locations.index[all_locations[locale_col] == guess]
MatchingIndex(frame, col, guess) ==
    LET Matches(row) == TableName(col, row.pos) = guess
    IN  Fids(SelectSeq(frame, Matches))

(***************************************************************************)
(* Pieces of main()                                                        *)
(***************************************************************************)
\* locale_list.index(x), zero based
ListIndex(x) == CHOOSE i \in 0..(Len(locale_list) - 1) : locale_list[i + 1] = x

\* a fallback to the first locale of the list instead of the fourth
locale_index_falls_back_to_first(qp) ==
    IF LOCALE \notin DOMAIN qp THEN 0
    ELSE IF \E i \in 1..Len(locale_list) : locale_list[i] = qp[LOCALE][1]
         THEN CHOOSE i \in 0..(Len(locale_list) - 1) : locale_list[i + 1] = qp[LOCALE][1]
         ELSE 0

\* lines 167-173: the index of the locale named by the query parameters;
\* a missing key (TypeError) or an unknown code (ValueError) keeps 3
locale_index(qp) ==
    IF LOCALE \notin DOMAIN qp THEN 3
    ELSE IF \E i \in 1..Len(locale_list) : locale_list[i] = qp[LOCALE][1]
         THEN ListIndex(qp[LOCALE][1])
         ELSE 3

\* LOCALES.get(selected_locale, "en")
locale_col_of(selected_locale) ==
    IF selected_locale \in DOMAIN LOCALES THEN LOCALES[selected_locale] ELSE "en"

\* a win check that looks at the first guess only
already_won_first_only(fid, gs) == Len(gs) > 0 /\ gs[1] = fid

\* a win check that gives way to the loss check once six guesses are recorded
already_won_after_loss(fid, gs) ==
    Len(gs) # 6 /\ \E i \in 1..Len(gs) : gs[i] = fid

\* already_won = random_location["fid"] in guesses
already_won(fid, gs) == \E i \in 1..Len(gs) : gs[i] = fid

\* a loss check that is off by one
out_of_guesses_at_seven(gs) == Len(gs) = 7

\* len(guesses) == 6
out_of_guesses(gs) == Len(gs) = 6

\* one percent of the float MAX_DISTANCE = 20015.086796020572 km, which is
\* 200150.86796020572 m: the whole metres, and the rest in units of 10^-7 m
PercentWholeM == 200150
PercentRest == 8679602

\* the largest whole number of metres within j percent of MAX_DISTANCE
PercentMetres(j) == j * PercentWholeM + (j * PercentRest) \div 10000000

\* int(distance_percentage), distance_percentage = (1 - distance / MAX_DISTANCE) * 100,
\* for a distance of 0 .. 2 * MAX_DISTANCE in whole metres: j is the first
\* whole percent of MAX_DISTANCE the distance does not exceed, and int()
\* cuts towards zero
int_distance_percentage(distance) ==
    LET a == distance \div (PercentWholeM + 1)
        j == IF distance <= PercentMetres(a) THEN a
             ELSE IF distance <= PercentMetres(a + 1) THEN a + 1
             ELSE a + 2
    IN  IF j <= 100 THEN 100 - j ELSE 101 - j

\* a silver threshold that includes 50
prox_icon_silver_from_50(distance) ==
    IF int_distance_percentage(distance) = 100 THEN "gold"
    ELSE IF int_distance_percentage(distance) >= 50 THEN "silver"
    ELSE "bronze"

\* lines 284-289
prox_icon(distance) ==
    LET percentage == int_distance_percentage(distance)
    IN  IF percentage = 100 THEN "gold"
        ELSE IF percentage > 50 THEN "silver"
        ELSE "bronze"

\* lines 276-292: one info line per guess
guess_lines(frame, gs) == [ i \in 1..Len(gs) |-> prox_icon(Loc(frame, gs[i]).distance) ]

\* a guard that forgets the membership test
not_a_new_guess_no_membership(has_guessed, guess_fid, gs) == ~has_guessed

\* a guard that forgets the form's submit flag
not_a_new_guess_no_submit_flag(has_guessed, guess_fid, gs) ==
    \E i \in 1..Len(gs) : gs[i] = guess_fid

\* line 309: the submission is not recorded
not_a_new_guess(has_guessed, guess_fid, gs) ==
    ~has_guessed \/ \E i \in 1..Len(gs) : gs[i] = guess_fid

\* a callback that pops the guesses and leaves the target in place
on_reset_pops_guesses(ks) ==
    IF GUESSES \in ks THEN [ keys |-> ks \ {GUESSES}, raises |-> "" ]
                      ELSE [ keys |-> ks, raises |-> "KeyError" ]

\* a callback that removes every field of the round
on_reset_clears_round(ks) ==
    [ keys |-> ks \ { RANDOM_LOCATION, ALL_LOCATIONS, GUESSES }, raises |-> "" ]

\* on_reset: st.session_state.pop(RANDOM_LOCATION), a pop without a default:
\* the keys it leaves, and the KeyError it raises where the key is missing
on_reset(ks) ==
    IF RANDOM_LOCATION \in ks THEN [ keys |-> ks \ {RANDOM_LOCATION}, raises |-> "" ]
                              ELSE [ keys |-> ks, raises |-> "KeyError" ]

\* get_distances writes its columns into the cached frame itself
singleton_worked_in_place(cache, fid) == get_distances(fid)

\* the frame @st.experimental_singleton holds after get_distances(fid):
\* get_all_locations() builds it at its first call and returns the cached
\* frame afterwards (line 120); get_distances works on a copy (line 121)
singleton_after(cache, fid) == IF cache = << >> THEN get_all_locations ELSE cache

\* the map always carries the mystery country
map_targets_always_target(gs, fid, show) == Append(gs, fid)

\* the records drawn on the hint map (lines 252-258): the guesses, and the
\* mystery country when "Reveal the mystery country on a map" is ticked
map_targets(gs, fid, show) == IF show THEN Append(gs, fid) ELSE gs

(***************************************************************************)
(* Initial states                                                          *)
(***************************************************************************)
\* the locale codes and query strings the model explores
TestLocales == { "en", "fr" }
NoParams == [ k \in {} |-> << "" >> ]
TestQueries ==
    { NoParams } \cup
    { [ k \in {LOCALE} |-> << c >> ] : c \in TestLocales \cup { "xx", "EN", "" } }

\* the options of the guess selectbox (lines 300-303): all_locations[col],
\* the names of the rows of the catalog
GuessInputs(col) ==
    { TableName(col, get_all_locations[i].pos) : i \in 1..Len(get_all_locations) }

NoFid == 0

\* a session whose page was loaded without query parameters
NewSession ==
    [ page_query |-> NoParams, keys |-> {}, random_location |-> NoFid,
      all_locations |-> << >>, guesses |-> << >>, locale |-> "",
      query_params |-> NoParams, show_on_map |-> FALSE, pc |-> "rerun",
      branch |-> "none", locale_col |-> "", prox_icons |-> << >>,
      buttons |-> {}, revealed |-> FALSE, header |-> "" ]

\* a page load: nothing in st.session_state, the first run is due
PageLoad(rows, queries) ==
    /\ db_rows = rows
    /\ singleton = << >>
    /\ other = NewSession
    /\ keys = {}
    /\ random_location = NoFid
    /\ all_locations = << >>
    /\ guesses = << >>
    /\ locale = ""
    /\ query_params \in queries
    /\ page_query = query_params
    /\ show_on_map = FALSE
    /\ pc = "rerun"
    /\ branch = "none"
    /\ locale_col = ""
    /\ prox_icons = << >>
    /\ buttons = {}
    /\ revealed = FALSE
    /\ header = ""

\* the game specification: the page is loaded without query parameters
Init == PageLoad(NumRows, { NoParams })

\* the widget specification: the page is loaded with any of the test queries
InitUI == PageLoad(SmallRows, TestQueries)

\* the two-session specification: both pages are loaded without parameters
InitShared == PageLoad(SharedRows, { NoParams })

(***************************************************************************)
(* main(): one script run                                                  *)
(***************************************************************************)
main(has_guessed, guess) ==
    LET \* lines 166-177
        selected_locale ==
            IF LOCALE \in keys THEN locale
            ELSE locale_list[locale_index(query_params) + 1]
        col == locale_col_of(selected_locale)
        new_session == RANDOM_LOCATION \notin keys
    IN
    /\ UNCHANGED << db_rows, page_query, other >>
    /\ locale' = selected_locale
    /\ query_params' = [ k \in {LOCALE} |-> << selected_locale >> ]
    /\ locale_col' = col
    \* lines 178-188
    /\ \E target \in ( IF new_session THEN { row.fid : row \in get_random_location }
                                        ELSE { random_location } ) :
         IF new_session /\ ~HasLabel(get_all_locations, target)
         THEN \* line 122 raises KeyError before anything is stored
              /\ branch' = "KeyError"
              /\ singleton' = singleton_after(singleton, target)
              /\ keys' = keys \cup { LOCALE }
              /\ buttons' = { }
              /\ prox_icons' = << >>
              /\ revealed' = FALSE
              /\ header' = ""
              /\ UNCHANGED << random_location, all_locations, guesses, show_on_map >>
         ELSE
         /\ keys' = keys \cup { LOCALE, RANDOM_LOCATION, ALL_LOCATIONS, GUESSES }
         /\ random_location' = target
         \* line 180 builds the table of a new target, line 187 reads the stored one
         /\ \E table \in { IF new_session THEN get_distances(target) ELSE all_locations } :
            LET gs == IF new_session THEN << >> ELSE guesses
                matches == MatchingIndex(table, col, guess)
            IN
            /\ all_locations' = table
            /\ singleton' = IF new_session THEN singleton_after(singleton, target)
                                           ELSE singleton
            /\ IF already_won(target, gs)
               THEN \* lines 193-209
                    /\ branch' = "won"
                    /\ guesses' = gs
                    /\ buttons' = { "Play Again!" }
                    /\ prox_icons' = << >>
                    \* line 196: the target's name in the displayed column
                    /\ header' = TableName(col, Loc(table, target).pos)
                    \* lines 197-203: the map of the won display draws the guesses
                    /\ LET targets == gs
                       IN  revealed' = ( \E i \in 1..Len(targets) : targets[i] = target )
                    /\ show_on_map' = FALSE
               ELSE /\ show_on_map' = show_on_map
                    /\ header' = ""
                    \* lines 250-274
                    /\ LET targets == map_targets(gs, target, show_on_map)
                       IN  revealed' = ( \E i \in 1..Len(targets) : targets[i] = target )
                    /\ prox_icons' = guess_lines(table, gs)
                    /\ IF out_of_guesses(gs)
                       THEN \* lines 294-297
                            /\ branch' = "lost"
                            /\ guesses' = gs
                            /\ buttons' = { "Try Again!" }
                       ELSE \* lines 299-314
                            /\ buttons' = { "Get new Random Country" }
                            /\ IF matches = << >>
                               THEN \* line 307: [0] of an empty match
                                    /\ branch' = "IndexError"
                                    /\ guesses' = gs
                               ELSE IF not_a_new_guess(has_guessed, matches[1], gs)
                               THEN /\ branch' = IF has_guessed THEN "duplicate" ELSE "no_guess"
                                    /\ guesses' = gs
                               ELSE \* lines 313-314
                                    /\ branch' = "appended"
                                    /\ guesses' = Append(gs, matches[1])
    /\ pc' = IF branch' = "appended" THEN "rerun" ELSE "idle"

\* the name column the next run will show (lines 166-177)
NextLocaleCol ==
    locale_col_of(IF LOCALE \in keys THEN locale
                  ELSE locale_list[locale_index(query_params) + 1])

\* the first option of the guess selectbox
DefaultGuess == TableName(NextLocaleCol, get_all_locations[1].pos)

(***************************************************************************)
(* Actions                                                                 *)
(***************************************************************************)
\* the user presses "Submit Guess!"
SubmitGuess ==
    /\ pc = "idle"
    /\ \E guess \in GuessInputs(NextLocaleCol) : main(TRUE, guess)

\* a run caused by a widget outside the form; the form is not submitted
Rerender ==
    /\ pc = "idle"
    /\ \E guess \in GuessInputs(NextLocaleCol) : main(FALSE, guess)

\* the run that follows a callback, st.experimental_rerun() or the page load
Rerun ==
    /\ pc = "rerun"
    /\ main(FALSE, DefaultGuess)

\* the user presses one of the reset buttons: the on_reset callback
OnReset ==
    /\ pc = "idle"
    /\ buttons # {}
    /\ keys' = on_reset(keys).keys
    /\ random_location' = IF RANDOM_LOCATION \in keys' THEN random_location ELSE NoFid
    /\ IF on_reset(keys).raises = "KeyError"
       THEN \* line 140 raises: the callback fails, and whether a run follows
            \* is up to Streamlit
            /\ branch' = "on_reset_KeyError"
            /\ pc' \in { "idle", "rerun" }
       ELSE /\ branch' = "on_reset"
            /\ pc' = "rerun"
    /\ UNCHANGED << db_rows, page_query, all_locations, guesses, locale, query_params,
                    show_on_map, locale_col, prox_icons, buttons, revealed, header,
                    singleton, other >>

\* the user picks a locale in the sidebar: widget state, then update_params
ChangeLocale ==
    /\ pc = "idle"
    /\ \E c \in TestLocales :
         /\ c # locale
         /\ locale' = c
         /\ query_params' = [ k \in {LOCALE} |-> << c >> ]
    /\ pc' = "rerun"
    /\ UNCHANGED << db_rows, page_query, keys, random_location, all_locations, guesses,
                    show_on_map, branch, locale_col, prox_icons, buttons, revealed, header,
                    singleton, other >>

\* the user ticks or clears "Reveal the mystery country on a map"
ToggleShowOnMap ==
    /\ pc = "idle"
    /\ branch # "won"
    /\ show_on_map' = ~show_on_map
    /\ pc' = "rerun"
    /\ UNCHANGED << db_rows, page_query, keys, random_location, all_locations, guesses, locale,
                    query_params, branch, locale_col, prox_icons, buttons, revealed, header,
                    singleton, other >>

\* the session the server process is serving now
session ==
    [ page_query |-> page_query, keys |-> keys, random_location |-> random_location,
      all_locations |-> all_locations, guesses |-> guesses, locale |-> locale,
      query_params |-> query_params, show_on_map |-> show_on_map, pc |-> pc,
      branch |-> branch, locale_col |-> locale_col, prox_icons |-> prox_icons,
      buttons |-> buttons, revealed |-> revealed, header |-> header ]

\* the server turns to its other session: each session has its own
\* st.session_state, widgets and query parameters
Switch ==
    /\ other' = session
    /\ page_query' = other.page_query
    /\ keys' = other.keys
    /\ random_location' = other.random_location
    /\ all_locations' = other.all_locations
    /\ guesses' = other.guesses
    /\ locale' = other.locale
    /\ query_params' = other.query_params
    /\ show_on_map' = other.show_on_map
    /\ pc' = other.pc
    /\ branch' = other.branch
    /\ locale_col' = other.locale_col
    /\ prox_icons' = other.prox_icons
    /\ buttons' = other.buttons
    /\ revealed' = other.revealed
    /\ header' = other.header
    /\ UNCHANGED << db_rows, singleton >>

Next ==
    \/ SubmitGuess
    \/ Rerender
    \/ Rerun
    \/ OnReset

NextUI ==
    \/ SubmitGuess
    \/ Rerender
    \/ Rerun
    \/ OnReset
    \/ ChangeLocale
    \/ ToggleShowOnMap

Spec == Init /\ [][Next]_vars

SpecUI == InitUI /\ [][NextUI]_vars

\* the game with the hint checkbox: the page is loaded without parameters
NextHint ==
    \/ SubmitGuess
    \/ Rerender
    \/ Rerun
    \/ OnReset
    \/ ToggleShowOnMap

SpecHint == Init /\ [][NextHint]_vars

NextShared ==
    \/ SubmitGuess
    \/ Rerender
    \/ Rerun
    \/ OnReset
    \/ Switch

SpecShared == InitShared /\ [][NextShared]_vars

(***************************************************************************)
(* Vocabulary of the properties                                            *)
(***************************************************************************)
\* the values of a sequence
Range(seq) == { seq[i] : i \in 1..Len(seq) }

\* a session exists: a target is stored
HasSession == RANDOM_LOCATION \in keys

\* the fields a round of the game consists of
game == << random_location, all_locations, guesses >>

\* the session is won / lost / active, derived from the stored fields
IsWon == HasSession /\ random_location \in Range(guesses)
IsLost == HasSession /\ ~IsWon /\ Len(guesses) = 6
IsActive == HasSession /\ ~IsWon /\ ~IsLost

\* the last run ended with the warning of line 310
Warned == branch \in { "no_guess", "duplicate" }

\* a run of main() takes place in this step
RunStep(has_guessed) == \E g \in GuessInputs(NextLocaleCol) : main(has_guessed, g)

(***************************************************************************)
(* Properties                                                              *)
(***************************************************************************)
\* C1: guesses never holds more than six ids, and a run that renders a
\* session with six guesses ends in the won display if the target is among
\* them and in the lost display otherwise, never at the guess form.
C1_AtMostSixGuesses ==
    /\ Len(guesses) <= 6
    /\ (HasSession /\ pc = "idle" /\ Len(guesses) = 6) =>
          /\ branch \in { "won", "lost" }
          /\ branch = "lost" <=> random_location \notin Range(guesses)

C1_Witness == HasSession /\ pc = "idle" /\ Len(guesses) = 6 /\ branch = "lost"

\* C2: a run that renders a session whose sixth guess is the target shows
\* the won display, not the lost one.
C2_WinBeforeLoss ==
    (HasSession /\ pc = "idle" /\ Len(guesses) = 6 /\ guesses[6] = random_location)
        => branch = "won"

C2_Witness ==
    /\ HasSession /\ pc = "idle" /\ branch = "won"
    /\ Len(guesses) = 6 /\ guesses[6] = random_location

\* C3: a submitted name that resolves to an id already in guesses leaves
\* target, distance table and guesses as they are and ends in the warning;
\* guesses never holds an id twice.
C3_DuplicateRejected ==
    [][ /\ Cardinality(Range(guesses')) = Len(guesses')
        /\ (pc = "idle" /\ IsActive) =>
              \A g \in GuessInputs(NextLocaleCol) :
                  LET index == MatchingIndex(all_locations, NextLocaleCol, g)
                  IN  ( /\ index # << >>
                        /\ index[1] \in Range(guesses)
                        /\ main(TRUE, g) )
                      => ( UNCHANGED game /\ branch' = "duplicate" /\ Warned' ) ]_vars

C3_Witness == IsActive /\ pc = "idle" /\ branch = "duplicate" /\ Len(guesses) >= 2

\* C4: a run in which the form was not submitted leaves target, distance
\* table and guesses of an existing session as they are, whatever name the
\* guess selectbox holds; if it creates the session, guesses is empty.
C4_NoSubmissionNoAppend ==
    [][ RunStep(FALSE) =>
          IF HasSession THEN UNCHANGED game ELSE guesses' = << >> ]_vars

C4_Witness ==
    /\ IsActive /\ pc = "idle" /\ branch = "no_guess"
    /\ Len(guesses) >= 1 /\ show_on_map /\ locale_col = "name_fr"

\* the target of the round a reset has ended: the row of the table the
\* session still stores that lies at distance 0
PreviousTarget ==
    CHOOSE fid \in { all_locations[i].fid : i \in 1..Len(all_locations) } :
        Loc(all_locations, fid).distance = 0

\* C5: the run that follows a reset stores an empty guess list and ends at
\* the guess form of an active session, whatever round the reset ended
\* (active, won or lost, with any guesses), and every record of the
\* catalog, the previous target included, can be its target.
C5_ResetStartsFresh ==
    /\ [][ branch = "on_reset" =>
              /\ HasSession' /\ guesses' = << >> /\ IsActive'
              /\ branch' = "no_guess" /\ pc' = "idle"
              /\ random_location' \in { row.fid : row \in get_random_location } ]_vars
    /\ [] ( branch = "on_reset" => ( pc = "rerun" /\ ~HasSession ) )
    \* no reset finds the target missing (the KeyError of line 140)
    /\ [] ( branch # "on_reset_KeyError" )
    /\ [] ( branch = "on_reset" =>
               /\ PreviousTarget \in { row.fid : row \in get_random_location }
               /\ \A row \in get_random_location :
                      ENABLED ( random_location' = row.fid /\ Rerun ) )

\* a reset of a lost round: the previous target and another record can
\* both be drawn
C5_Witness ==
    /\ branch = "on_reset" /\ pc = "rerun" /\ ~HasSession
    /\ Len(guesses) = 6 /\ PreviousTarget \notin Range(guesses)
    /\ ENABLED ( random_location' = PreviousTarget /\ Rerun )
    /\ ENABLED ( random_location' = guesses[1] /\ Rerun )

\* C6: a won or lost session changes only by a reset: every other step
\* leaves target, distance table and guesses as they are and shows the same
\* display; a reset button is rendered by every run.
C6_TerminalUntilReset ==
    [][ /\ (pc = "idle" /\ (IsWon \/ IsLost)) =>
              \/ UNCHANGED game /\ branch' = branch
              \/ ~HasSession' /\ branch' = "on_reset"
        /\ (pc = "idle") => ( buttons # {} /\ ENABLED OnReset ) ]_vars

C6_Witness == pc = "idle" /\ IsWon /\ branch = "won" /\ Len(guesses) = 2

\* C8: in every locale the display name of every catalog record resolves to
\* exactly that record's id, and submitting the name in the selected locale
\* records that id unless it is already among the guesses.
C8_NameRoundTrip ==
    [][ (pc = "idle" /\ IsActive) =>
          \A i \in 1..Len(all_locations) :
              LET row == all_locations[i]
              IN  /\ \A c \in DOMAIN LOCALES :
                        MatchingIndex(all_locations, LOCALES[c],
                                      TableName(LOCALES[c], row.pos)) = << row.fid >>
                  /\ main(TRUE, TableName(NextLocaleCol, row.pos)) =>
                        guesses' = IF row.fid \in Range(guesses)
                                   THEN guesses ELSE Append(guesses, row.fid) ]_vars

C8_Witness ==
    /\ branch = "appended" /\ locale_col = "name_fr"
    /\ Len(guesses) = 2 /\ random_location = guesses[2]

\* the name column a locale code asks for
ExpectedCol(qp) ==
    IF LOCALE \in DOMAIN qp /\ qp[LOCALE][1] \in DOMAIN LOCALES
    THEN LOCALES[qp[LOCALE][1]]
    ELSE LOCALES[DEFAULT_LOCALE]

\* C9: the first run of a page shows the name column of the locale code in
\* the query parameters, and name_en when the code is missing or not one of
\* the codes of LOCALES; it ends at the guess form, not in an error.
C9_LocaleFallback ==
    [][ LOCALE \notin keys =>
          /\ locale_col' = ExpectedCol(query_params)
          /\ locale' \in DOMAIN LOCALES /\ LOCALES[locale'] = locale_col'
          /\ branch' = "no_guess" ]_vars

C9_Witness ==
    /\ page_query \in { [ k \in {LOCALE} |-> << c >> ] : c \in { "xx", "EN", "" } }
    /\ LOCALE \in keys /\ locale = "en" /\ locale_col = "name_en"
    /\ pc = "idle" /\ branch = "no_guess" /\ guesses = << >>

\* the tier of the specification: 100% gold, above 50% silver, else bronze
\* (proximity is 100% iff distance = 0, above 50% iff distance < MAX / 2)
StatedTier(distance) ==
    IF distance = 0 THEN "gold"
    ELSE IF 2 * distance < MAX_DISTANCE THEN "silver"
    ELSE "bronze"

\* the tier by whole percents: 100% gold, 51% and above silver, else bronze
WholePercentTier(distance) ==
    IF distance <= 0 THEN "gold"
    ELSE IF (MAX_DISTANCE - distance) * 100 >= 51 * MAX_DISTANCE THEN "silver"
    ELSE "bronze"

\* the distance of guess i in the stored table
GuessDistance(i) == Loc(all_locations, guesses[i]).distance

\* C10 as stated: every guess line shows gold at 100% proximity, silver
\* above 50% and bronze otherwise, and so does the tier of every row of the
\* distance table.
C10_TierAsStated ==
    /\ \A i \in 1..Len(prox_icons) : prox_icons[i] = StatedTier(GuessDistance(i))
    /\ \A i \in 1..Len(all_locations) :
          prox_icon(all_locations[i].distance) = StatedTier(all_locations[i].distance)

\* C10 amended: the tier is taken from the proximity cut to a whole percent:
\* gold at 100%, silver from 51% up, bronze below 51%.
C10_TierByWholePercent ==
    /\ \A i \in 1..Len(prox_icons) : prox_icons[i] = WholePercentTier(GuessDistance(i))
    /\ \A i \in 1..Len(all_locations) :
          prox_icon(all_locations[i].distance) = WholePercentTier(all_locations[i].distance)

C10_Witness ==
    /\ pc = "idle" /\ IsActive
    /\ \E i \in 1..Len(prox_icons) :
          /\ prox_icons[i] = "bronze"
          /\ 2 * GuessDistance(i) < MAX_DISTANCE
    /\ \E i \in 1..Len(prox_icons) : prox_icons[i] = "silver"

\* the name of the target in the column the last run displayed
TargetName == TableName(locale_col, Loc(all_locations, random_location).pos)

\* C11 (as stated): no run of an ACTIVE session draws the mystery country
\* on a map or writes its name.
C11_NeverRevealedWhileActive ==
    ( pc = "idle" /\ IsActive ) => ( ~revealed /\ header = "" )

\* C11: a run of a session that is not won (active or lost) draws the
\* mystery country on a map exactly when "Reveal the mystery country on a
\* map" is ticked, and never writes its name; the won display writes the
\* name and draws the mystery country among the guesses.
C11_RevealedOnlyWonOrHint ==
    /\ ( pc = "idle" /\ HasSession /\ ~IsWon ) =>
           ( ( revealed <=> show_on_map ) /\ header = "" )
    /\ ( pc = "idle" /\ IsWon ) =>
           ( branch = "won" /\ revealed /\ header = TargetName )

\* an active session with one wrong guess, rendered with the hint ticked
C11_Witness ==
    /\ pc = "idle" /\ IsActive /\ Len(guesses) = 1
    /\ show_on_map /\ revealed /\ header = "" /\ branch = "no_guess"

\* C12: a step of one session leaves the other session's target, table and
\* guesses (and everything else it holds) as they are, the only other steps
\* exchange the two sessions, and the cached catalog, once built, is the
\* query result and never changes.
C12_SessionsIsolated ==
    /\ [][ \/ other' = other
           \/ ( other' = session /\ session' = other ) ]_vars
    /\ [][ singleton # << >> => singleton' = singleton ]_vars
    /\ []( singleton \in { << >>, get_all_locations } )
    /\ []( ( HasSession \/ RANDOM_LOCATION \in other.keys ) => singleton = get_all_locations )

C12_Witness ==
    /\ HasSession /\ RANDOM_LOCATION \in other.keys
    /\ random_location # other.random_location
    /\ all_locations # other.all_locations
    /\ Len(guesses) = 1 /\ Len(other.guesses) = 2
    /\ branch = "duplicate" /\ other.branch = "won"
    /\ singleton = get_all_locations

\* C13: the stored distance table has the rows of the catalog in catalog
\* order, distance 0 in the target's row and every distance in
\* 0..MAX_DISTANCE.
C13_DistanceTableRange ==
    HasSession =>
        /\ Fids(all_locations) = Fids(get_all_locations)
        /\ \A i \in 1..Len(all_locations) :
              /\ all_locations[i].distance >= 0
              /\ all_locations[i].distance <= MAX_DISTANCE
              /\ all_locations[i].fid = random_location => all_locations[i].distance = 0

C13_Witness ==
    /\ HasSession /\ Len(all_locations) = 7 /\ all_locations[1].fid # random_location
    /\ \E i \in 1..Len(all_locations) : all_locations[i].distance = MAX_DISTANCE
    /\ \E i \in 1..Len(all_locations) :
          all_locations[i].fid = random_location /\ all_locations[i].distance = 0

\* the fields of a round that are present in st.session_state
RoundKeys == keys \cap { RANDOM_LOCATION, ALL_LOCATIONS, GUESSES }

\* C14 as stated: after the reset callback and before the next run no field
\* of the old round is left in st.session_state.
C14_ResetClearsAllFields ==
    branch = "on_reset" => RoundKeys = {}

\* C14 amended: the reset callback removes the target only; the distance
\* table and the guess list of the old round stay in st.session_state, with
\* their values, until the next run replaces them.
C14_ResetRemovesTargetOnly ==
    /\ [][ branch' = "on_reset" =>
              /\ RoundKeys' = RoundKeys \ { RANDOM_LOCATION }
              /\ UNCHANGED << all_locations, guesses >> ]_vars
    /\ [] ( branch = "on_reset" =>
               ( ~HasSession /\ RoundKeys = { ALL_LOCATIONS, GUESSES } ) )

C14_Witness ==
    /\ branch = "on_reset" /\ ~HasSession /\ pc = "rerun"
    /\ GUESSES \in keys /\ Len(guesses) = 3 /\ ALL_LOCATIONS \in keys
    /\ Len(all_locations) = 7

\* the last guess of the list
LastGuess == guesses[Len(guesses)]

\* C15: an accepted guess is appended in the run that accepts it; the next
\* run shows the won display if that guess is the target and the guess form
\* of an active session if it is not and fewer than six guesses are stored;
\* st.session_state holds no field besides target, table, guesses, locale.
C15_WinOnNextRun ==
    /\ [][ /\ branch' = "appended" =>
                /\ Len(guesses') = Len(IF HasSession THEN guesses ELSE << >>) + 1
                /\ HasSession => SubSeq(guesses', 1, Len(guesses)) = guesses
                /\ pc' = "rerun"
           /\ branch = "appended" =>
                /\ UNCHANGED game
                /\ LastGuess = random_location => ( branch' = "won" /\ IsWon' )
                /\ ( LastGuess # random_location /\ Len(guesses) < 6 ) =>
                      ( branch' = "no_guess" /\ IsActive' ) ]_vars
    /\ [] ( keys \subseteq { RANDOM_LOCATION, ALL_LOCATIONS, GUESSES, LOCALE } )

C15_Witness ==
    /\ branch = "won" /\ pc = "idle" /\ Len(guesses) = 3
    /\ LastGuess = random_location

\* the distance table of target fid, row by row
IsTableOf(table, fid) ==
    LET gdf == get_all_locations
        t == CHOOSE i \in 1..Len(gdf) : gdf[i].fid = fid
    IN  /\ Len(table) = Len(gdf)
        /\ \A i \in 1..Len(gdf) :
              /\ table[i].fid = gdf[i].fid
              /\ table[i].distance = haversine(gdf[i].lat, gdf[i].lon, gdf[t].lat, gdf[t].lon)
              /\ table[i].direction =
                    get_flat_earth_bearing(gdf[i].lat, gdf[i].lon, gdf[t].lat, gdf[t].lon)

\* C16: the stored table is the table of the stored target; a step that
\* starts and ends with a session leaves target and table as they are, and a
\* step that creates the session stores both.
C16_TableOncePerTarget ==
    /\ [] ( HasSession => IsTableOf(all_locations, random_location) )
    /\ [][ /\ ( HasSession /\ HasSession' ) =>
                UNCHANGED << random_location, all_locations >>
           /\ ( ~HasSession /\ HasSession' ) =>
                ( { RANDOM_LOCATION, ALL_LOCATIONS } \subseteq keys' /\ guesses' = << >> ) ]_vars

C16_Witness ==
    /\ HasSession /\ branch = "duplicate" /\ Len(guesses) = 2
    /\ IsTableOf(all_locations, random_location)
    /\ all_locations[1].fid # random_location

\* C17: every row get_random_location can return is a row of the catalog,
\* the target of a session is an index label of the catalog and of the
\* stored table, and no run ends with the KeyError of get_distances.
C17_TargetInCatalog ==
    /\ branch # "KeyError"
    /\ \A row \in get_random_location : HasLabel(get_all_locations, row.fid)
    /\ HasSession => /\ HasLabel(get_all_locations, random_location)
                     /\ HasLabel(all_locations, random_location)

C17_Witness ==
    /\ HasSession /\ random_location = 12 /\ guesses = << >>
    /\ branch = "no_guess" /\ Loc(all_locations, 12).distance = 0

\* C18: if the target is among the guesses, it is the last one.
C18_TargetOnlyLast ==
    HasSession =>
        \A i \in 1..Len(guesses) : guesses[i] = random_location => i = Len(guesses)

C18_Witness ==
    /\ HasSession /\ Len(guesses) = 4 /\ guesses[4] = random_location
    /\ branch = "won" /\ buttons = { "Play Again!" }

\* C19: a change of locale leaves target, table and guesses as they are, and
\* the name a guessed record has in the locale now selected is turned down
\* as a duplicate.
C19_LocaleIndependentGuesses ==
    [][ /\ ( HasSession /\ ( locale' # locale \/ locale_col' # locale_col ) ) =>
              UNCHANGED game
        /\ ( pc = "idle" /\ IsActive ) =>
              \A i \in 1..Len(guesses) :
                  main(TRUE, TableName(NextLocaleCol, Loc(all_locations, guesses[i]).pos))
                  => ( UNCHANGED game /\ branch' = "duplicate" ) ]_vars
    /\ []( ( pc = "idle" /\ IsActive ) =>
              \A i \in 1..Len(guesses) :
                  ENABLED ( /\ main(TRUE, TableName(NextLocaleCol,
                                                    Loc(all_locations, guesses[i]).pos))
                            /\ branch' = "duplicate" ) )

C19_Witness ==
    /\ page_query = [ k \in {LOCALE} |-> << "en" >> ]
    /\ locale = "fr" /\ locale_col = "name_fr" /\ branch = "duplicate"
    /\ IsActive /\ Len(guesses) = 1 /\ guesses[1] = 5

TypeOK ==
    /\ keys \subseteq { LOCALE, RANDOM_LOCATION, ALL_LOCATIONS, GUESSES }
    /\ pc \in { "idle", "rerun" }
    /\ branch \in { "none", "on_reset", "won", "lost", "no_guess", "duplicate", "appended", "IndexError", "KeyError",
                   "on_reset_KeyError" }
    /\ show_on_map \in BOOLEAN
    /\ revealed \in BOOLEAN
    /\ header \in { "" } \cup GuessInputs(locale_col)
    /\ singleton \in { << >>, get_all_locations }
    /\ other.pc \in { "idle", "rerun" }
====
